---- MODULE Spec2Model ----
(***************************************************************************)
(* Model of the hover-scrub image carousel of static_dev/js/carousel.js.   *)
(*                                                                         *)
(* The page holds a fixed number of carousel containers.  Each container   *)
(* carries its markup (the data-images and data-total-images attributes,   *)
(* the enclosing .card and the dots of that card); window.initCarousels    *)
(* binds one closure (currentIndex, imagesLoaded, isProcessing) and four   *)
(* kinds of listeners to every container it processes.  The browser's      *)
(* event loop delivers pointer events, dot clicks and animation frames in  *)
(* any order; every handler runs to completion.                            *)
(*                                                                         *)
(* The module also models the order page's map of static_dev/js/map.js     *)
(* (SpecMap: window.initMapLogic, its timers and the ymaps.ready callbacks; *)
(* SpecOrder: the order form, its buying type, address and submit) and the *)
(* profile tabs of carousel.js with the session history (SpecTabs).        *)
(***************************************************************************)
EXTENDS Integers, Sequences, FiniteSets, TLC

\* ------------------------------------------------------------------ bounds
\* Largest data-total-images value / longest URL list in the markup.
MaxTotal == 3
\* Cap on callbacks waiting in the animation-frame queue.
MaxQueue == 3
\* Cap on pending setTimeout timers and on pending ymaps.ready callbacks.
MaxPending == 2
\* Cap on the map objects the order page constructs.
MaxMaps == 3
\* Cap on the #map elements htmx brings into the document.
MaxContainers == 2
\* Cap on geocode / search-result requests awaiting their answer.
MaxGeocodes == 2
\* Cap on the entries of the session history of the profile page.
MaxHistory == 3

\* The containers on the page, in document order.
Carousels == {1, 2}

\* Pointer clientX values (rect.left is 0, so clientX is the offset x).
Xs == {-20, 50, 150, 250, 300}
\* Widths getBoundingClientRect() can report (0: hidden or detached).
Widths == {0, 100, 200, 300}

Max(a, b) == IF a >= b THEN a ELSE b
Min(a, b) == IF a <= b THEN a ELSE b

\* ------------------------------------------------------------------ markup
Url(i) == <<"img", i>>
NoUrl == <<"", 0>>

\* JSON arrays of MaxTotal URLs, at most one of the non-primary ones empty.
UrlLists ==
    { [i \in 1..MaxTotal |-> IF i = e THEN NoUrl ELSE Url(i)] : e \in {0} \cup 2..MaxTotal }

\* Values of data-images: absent, not JSON, JSON but no array, a JSON array.
ImagesAttrs ==
    { [kind |-> k, urls |-> <<>>] : k \in {"missing", "syntax", "object"} }
        \cup { [kind |-> "array", urls |-> u] : u \in UrlLists }

DigitChars == <<"0", "1", "2", "3", "4", "5", "6", "7", "8", "9">>
IsDigit(ch) == \E i \in 1..10 : DigitChars[i] = ch
DigitVal(ch) == (CHOOSE i \in 1..10 : DigitChars[i] = ch) - 1

\* Values of data-total-images, as character sequences (<<>>: absent/empty).
TotalAttrs ==
    { <<>>, <<"x">>, <<"-", "2">>, <<"\n", " ", "2", "p", "x">> }
        \cup { <<DigitChars[n + 1]>> : n \in 0..MaxTotal }

StdImages == [kind |-> "array", urls |-> [i \in 1..MaxTotal |-> Url(i)]]
StdTotal == <<DigitChars[MaxTotal + 1]>>

\* The markups a container can have: the standard card (MaxTotal images,
\* MaxTotal dots) varied in one attribute at a time, plus the card whose
\* JSON list lost a URL and the container outside any .card.
Markups ==
    { [hasCard |-> TRUE, images |-> im, total |-> StdTotal, ndots |-> MaxTotal]
        : im \in ImagesAttrs }
    \cup { [hasCard |-> TRUE, images |-> StdImages, total |-> t, ndots |-> MaxTotal]
        : t \in TotalAttrs }
    \cup { [hasCard |-> TRUE, images |-> StdImages, total |-> StdTotal, ndots |-> d]
        : d \in {0, MaxTotal - 1, MaxTotal + 1} }
    \cup { [hasCard |-> FALSE, images |-> StdImages, total |-> StdTotal, ndots |-> MaxTotal] }

VARIABLES
    markup,        \* container -> its markup (never changes)
    initialized,   \* container -> has the data-initialized attribute
    listeners,     \* container -> how many times the listeners were bound
    currentIndex,  \* container -> closure variable currentIndex
    imagesLoaded,  \* container -> closure variable imagesLoaded
    isProcessing,  \* container -> closure variable isProcessing
    images,        \* container -> its <img data-carousel-image> children, in order
    dots,          \* container -> the [data-dot-index] elements of its card
    rafQueue,      \* callbacks passed to requestAnimationFrame, not yet run
    uncaught,      \* an exception escaped initCarousels
    defaultPrevented, \* the last click on a dot had its default action suppressed
    pointer,       \* where the pointer rests, by its last pointer event
    mapContainer,  \* the #map element in the document (0: none), by arrival
    containers,    \* how many #map elements the document has held
    ymapsDefined,  \* the maps API script has defined the global ymaps
    htmxDefined,   \* htmx was defined when map.js ran
    domReady,      \* DOMContentLoaded has been dispatched
    myMapInstance, \* window.myMapInstance (0: null), an index into maps
    maps,          \* every map constructed: its container, destroyed, rendered
    timers,        \* pending setTimeout(window.initMapLogic, 100) calls
    readyQueue,    \* pending ymaps.ready callbacks: the container each captured
    buyingType,    \* value of the #id_buying_type select
    address,       \* value of the #address input, a string
    formBound,     \* initFormListeners has bound the form in the document
    searchVisible, \* the 'visible' option of searchControl
    geocodes,      \* ymaps.geocode / getResult promises not yet resolved
    submitted,     \* how the last submit of the order form ended
    activeTab,     \* profileTabs: the activeTab property
    tabsReady,     \* profileTabs: init() has run
    entries,       \* session history: the pathname of every entry
    position       \* session history: the current entry

vars == <<markup, initialized, listeners, currentIndex, imagesLoaded, isProcessing,
          images, dots, rafQueue, uncaught, defaultPrevented, pointer,
          mapContainer, containers, ymapsDefined, htmxDefined, domReady,
          myMapInstance, maps, timers, readyQueue,
          buyingType, address, formBound, searchVisible, geocodes, submitted,
          activeTab, tabsReady, entries, position>>

\* The state of the carousels and the state of the order page's map.
carouselVars == <<markup, initialized, listeners, currentIndex, imagesLoaded,
                  isProcessing, images, dots, rafQueue, uncaught, defaultPrevented,
                  pointer>>
mapVars == <<mapContainer, containers, ymapsDefined, htmxDefined, domReady,
             myMapInstance, maps, timers, readyQueue>>
formVars == <<buyingType, address, formBound, searchVisible, geocodes, submitted>>
tabVars == <<activeTab, tabsReady, entries, position>>

\* ------------------------------------------------------------- conversions
\* White space and line terminators, as parseInt, \s and trim() strip them
\* (those a TLA+ string can hold): U+0020, tab, line feed, carriage return,
\* form feed, then U+000B, U+00A0, U+FEFF and U+1680 written as themselves.
WhiteSpace == {" ", "\t", "\n", "\r", "\f", "", " ", "﻿", " "}

\* parseInt(s, 10): leading white space, an optional sign, then the digits
\* up to the first other character; NaN when there is no digit.
RECURSIVE DigitsValue(_, _)
DigitsValue(s, acc) ==
    IF s = <<>> \/ ~IsDigit(Head(s)) THEN acc
    ELSE DigitsValue(Tail(s), 10 * acc + DigitVal(Head(s)))

RECURSIVE ParseInt(_)
ParseInt(s) ==
    IF s = <<>> THEN [nan |-> TRUE, val |-> 0]
    ELSE IF Head(s) \in WhiteSpace THEN ParseInt(Tail(s))
    ELSE LET neg == Head(s) = "-"
             body == IF Head(s) \in {"-", "+"} THEN Tail(s) ELSE s
         IN  IF body = <<>> \/ ~IsDigit(Head(body)) THEN [nan |-> TRUE, val |-> 0]
             ELSE [nan |-> FALSE,
                   val |-> IF neg THEN 0 - DigitsValue(body, 0) ELSE DigitsValue(body, 0)]

\* parseInt(carousel.dataset.totalImages, 10) || 1
TotalImagesOf(attr) ==
    LET r == ParseInt(attr) IN IF r.nan \/ r.val = 0 THEN 1 ELSE r.val

\* The try block: JSON.parse(cleanedData).filter(url => url && url !== '').
\* A missing attribute, invalid JSON and a non-array value all throw.
ParseImages(attr) ==
    IF attr.kind = "array"
    THEN [threw |-> FALSE, urls |-> SelectSeq(attr.urls, LAMBDA u : u # NoUrl)]
    ELSE [threw |-> TRUE, urls |-> <<>>]

totalImages(c) == TotalImagesOf(markup[c].total)
imagesUrl(c) == ParseImages(markup[c].images).urls

\* ---------------------------------------------------------------- the DOM
\* The server renders the primary image on top and every dot faded.
PrimaryImage == [idx |-> 0, src |-> Url(1), top |-> TRUE]
FadedDot == [black |-> FALSE, faded |-> TRUE, hidden |-> FALSE]

\* querySelector(`[data-carousel-image="${i}"]`): position of the first match, 0 if none.
QueryImage(imgs, i) ==
    IF \E k \in 1..Len(imgs) : imgs[k].idx = i
    THEN CHOOSE k \in 1..Len(imgs) :
            imgs[k].idx = i /\ \A j \in 1..(k - 1) : imgs[j].idx # i
    ELSE 0

\* The mutable state as one record, so that handlers are functions on it.
World ==
    [initialized |-> initialized, listeners |-> listeners,
     currentIndex |-> currentIndex, imagesLoaded |-> imagesLoaded,
     isProcessing |-> isProcessing, images |-> images, dots |-> dots,
     rafQueue |-> rafQueue, uncaught |-> uncaught,
     defaultPrevented |-> defaultPrevented]

\* The handler's result is computed once and becomes the next state.
Commit(w) ==
    \E v \in {w} :
        /\ initialized' = v.initialized
        /\ listeners' = v.listeners
        /\ currentIndex' = v.currentIndex
        /\ imagesLoaded' = v.imagesLoaded
        /\ isProcessing' = v.isProcessing
        /\ images' = v.images
        /\ dots' = v.dots
        /\ rafQueue' = v.rafQueue
        /\ uncaught' = v.uncaught
        /\ defaultPrevented' = v.defaultPrevented
        /\ UNCHANGED <<markup, mapVars, formVars, tabVars>>

\* --------------------------------------------------------------- closures
\* loadImages(): once, append one <img> per filtered URL index 1..length-1.
RECURSIVE AppendImages(_, _, _)
AppendImages(imgs, urls, i) ==
    IF i >= Len(urls) THEN imgs
    ELSE AppendImages(Append(imgs, [idx |-> i, src |-> urls[i + 1], top |-> FALSE]),
                      urls, i + 1)

\* Variant: loadImages without its imagesLoaded check.
LoadImagesAgain(w, c) ==
    [w EXCEPT !.images[c] = AppendImages(@, imagesUrl(c), 1),
              !.imagesLoaded[c] = TRUE]

\* Variant: loadImages forgets to set imagesLoaded.
LoadImagesNoFlag(w, c) ==
    IF w.imagesLoaded[c] THEN w
    ELSE [w EXCEPT !.images[c] = AppendImages(@, imagesUrl(c), 1)]

LoadImages(w, c) ==
    IF w.imagesLoaded[c] THEN w
    ELSE [w EXCEPT !.images[c] = AppendImages(@, imagesUrl(c), 1),
                   !.imagesLoaded[c] = TRUE]

\* classList.replace('z-10', 'z-0') and back, on the image at position k.
Demote(imgs, k) == IF k = 0 THEN imgs ELSE [imgs EXCEPT ![k].top = FALSE]
Promote(imgs, k) == IF k = 0 THEN imgs ELSE [imgs EXCEPT ![k].top = TRUE]

\* classList.replace(old, new) on dot i (0-based) when dotElements[i] exists:
\* nothing happens unless the dot carries the old class.
DotOff(ds, i) ==
    IF i + 1 \in DOMAIN ds /\ ds[i + 1].black
    THEN [ds EXCEPT ![i + 1].black = FALSE, ![i + 1].faded = TRUE]
    ELSE ds
DotOn(ds, i) ==
    IF i + 1 \in DOMAIN ds /\ ds[i + 1].faded
    THEN [ds EXCEPT ![i + 1].faded = FALSE, ![i + 1].black = TRUE]
    ELSE ds

\* Variant: the guard forgets the upper end of the range.
UpdateSkippedNoUpper(cur, newIndex, total) ==
    newIndex = cur \/ newIndex < 0

\* Variant: the guard forgets the lower end of the range.
UpdateSkippedNoLower(cur, newIndex, total) ==
    newIndex = cur \/ newIndex >= total

\* The guard of updateCarousel: newIndex is the current one or out of range.
UpdateSkipped(cur, newIndex, total) ==
    newIndex = cur \/ newIndex < 0 \/ newIndex >= total

UpdateCarousel(w, c, newIndex) ==
    IF UpdateSkipped(w.currentIndex[c], newIndex, totalImages(c)) THEN w
    ELSE LET w1 == IF ~w.imagesLoaded[c] /\ newIndex > 0 THEN LoadImages(w, c) ELSE w
             currentImg == QueryImage(w1.images[c], w1.currentIndex[c])
             nextImg == QueryImage(w1.images[c], newIndex)
             hiddenImgs == Demote(w1.images[c], currentImg)
             hiddenDots == IF currentImg # 0 THEN DotOff(w1.dots[c], w1.currentIndex[c])
                           ELSE w1.dots[c]
             shownImgs == Promote(hiddenImgs, nextImg)
             shownDots == IF nextImg # 0 THEN DotOn(hiddenDots, newIndex) ELSE hiddenDots
         IN  [w1 EXCEPT !.images[c] = shownImgs,
                        !.dots[c] = shownDots,
                        !.currentIndex[c] = newIndex]

\* ------------------------------------------------------------ initCarousels
\* A scope: the elements below it that are containers, and the container the
\* scope itself is (0: the scope is no container).
Document == [desc |-> Carousels, self |-> 0]
Scopes ==
    {Document}
        \cup { [desc |-> {c}, self |-> 0] : c \in Carousels }
        \cup { [desc |-> {}, self |-> c] : c \in Carousels }

RECURSIVE InOrder(_)
InOrder(S) ==
    IF S = {} THEN <<>>
    ELSE LET m == CHOOSE x \in S : \A y \in S : x <= y
         IN  <<m>> \o InOrder(S \ {m})

\* Variant: the selector without :not([data-initialized]).
QueryAll(w, scope) == InOrder(scope.desc)

\* querySelectorAll('[data-carousel]:not([data-initialized])')
QueryUninitialized(w, scope) == InOrder({ c \in scope.desc : ~w.initialized[c] })

\* Lines 2-8: the containers one call processes, in order.
Selected(w, scope) ==
    QueryUninitialized(w, scope)
        \o (IF scope.self # 0 /\ ~w.initialized[scope.self] THEN <<scope.self>> ELSE <<>>)

MarkInitialized(w, c) == [w EXCEPT !.initialized[c] = TRUE]

\* Variant: the catch block takes the data-initialized mark back.
OnParseErrorUnmark(w, c) == [w |-> [w EXCEPT !.initialized[c] = FALSE], threw |-> FALSE]

\* Variant: no catch block, the parse error leaves the forEach callback.
OnParseErrorRethrow(w, c) == [w |-> w, threw |-> TRUE]

\* catch (e) { console.error(...); return; }: the container is skipped and
\* the error goes no further.
OnParseError(w, c) == [w |-> w, threw |-> FALSE]

\* if (totalImages !== dotElements.length) hide the dots at index >= totalImages
HideExtraDots(ds, total) ==
    IF total # Len(ds)
    THEN [i \in DOMAIN ds |-> IF i - 1 >= total THEN [ds[i] EXCEPT !.hidden = TRUE] ELSE ds[i]]
    ELSE ds

\* dotElements[0].classList.add('bg-black'); .remove('bg-black/20')
ActivateFirstDot(ds) ==
    IF 1 \in DOMAIN ds THEN [ds EXCEPT ![1].black = TRUE, ![1].faded = FALSE] ELSE ds

\* Variant: no early return for totalImages <= 1.
BindAlways(w, c) ==
    [w EXCEPT !.dots[c] = ActivateFirstDot(HideExtraDots(@, totalImages(c))),
              !.currentIndex[c] = 0,
              !.imagesLoaded[c] = FALSE,
              !.isProcessing[c] = FALSE,
              !.listeners[c] = @ + 1]

\* Lines 25-140 for a container whose data-images parsed.
Bind(w, c) ==
    LET total == totalImages(c)
        w1 == [w EXCEPT !.dots[c] = ActivateFirstDot(HideExtraDots(@, total))]
    IN  IF total <= 1 THEN w1
        ELSE [w1 EXCEPT !.currentIndex[c] = 0,
                        !.imagesLoaded[c] = FALSE,
                        !.isProcessing[c] = FALSE,
                        !.listeners[c] = @ + 1]

\* The body of carousels.forEach for one container.
InitOne(w, c) ==
    LET w1 == MarkInitialized(w, c)
    IN  IF ~markup[c].hasCard THEN [w |-> w1, threw |-> FALSE]
        ELSE IF ParseImages(markup[c].images).threw THEN OnParseError(w1, c)
        ELSE [w |-> Bind(w1, c), threw |-> FALSE]

\* carousels.forEach: an exception leaving the callback ends the loop.
RECURSIVE ForEach(_, _)
ForEach(w, cs) ==
    IF cs = <<>> THEN w
    ELSE LET r == InitOne(w, Head(cs))
         IN  IF r.threw THEN [r.w EXCEPT !.uncaught = TRUE]
             ELSE ForEach(r.w, Tail(cs))

initCarousels(w, scope) == ForEach(w, Selected(w, scope))

\* ----------------------------------------------------------------- handlers
\* carousel.addEventListener('mouseenter', ...)
OnMouseEnter(w, c) == LoadImages(w, c)

\* dot.addEventListener('click', ...) of dot number index
\* Variant: the click handler leaves loading to updateCarousel.
OnDotClickNoLoad(w, c, index) ==
    UpdateCarousel([w EXCEPT !.defaultPrevented = TRUE], c, index)

OnDotClick(w, c, index) ==
    UpdateCarousel(LoadImages([w EXCEPT !.defaultPrevented = TRUE], c), c, index)

\* Variant: mousemove without the isProcessing check.
OnMouseMoveUnthrottled(w, c, x, inFire) ==
    IF inFire THEN w
    ELSE [w EXCEPT !.isProcessing[c] = TRUE,
                   !.rafQueue = Append(@, [c |-> c, clientX |-> x])]

\* Variant: mousemove without the .group/fire exclusion.
OnMouseMoveNoFire(w, c, x, inFire) ==
    IF w.isProcessing[c] THEN w
    ELSE [w EXCEPT !.isProcessing[c] = TRUE,
                   !.rafQueue = Append(@, [c |-> c, clientX |-> x])]

\* Variant: one isProcessing flag for the whole page.
OnMouseMoveGlobalFlag(w, c, x, inFire) ==
    IF inFire \/ (\E d \in Carousels : w.isProcessing[d]) THEN w
    ELSE [w EXCEPT !.isProcessing = [d \in Carousels |-> TRUE],
                   !.rafQueue = Append(@, [c |-> c, clientX |-> x])]

\* carousel.addEventListener('mousemove', ...): inFire says the target lies
\* inside .group/fire.
OnMouseMove(w, c, x, inFire) ==
    IF inFire \/ w.isProcessing[c] THEN w
    ELSE [w EXCEPT !.isProcessing[c] = TRUE,
                   !.rafQueue = Append(@, [c |-> c, clientX |-> x])]

\* JavaScript numbers are IEEE 754 doubles: MantissaBits fraction bits.
MantissaBits == 52

RECURSIVE Log2Floor(_)
Log2Floor(v) == IF v <= 1 THEN 0 ELSE 1 + Log2Floor(v \div 2)

RECURSIVE ShiftsToReach(_, _, _)
ShiftsToReach(v, goal, j) ==
    IF v * (2 ^ j) >= goal THEN j ELSE ShiftsToReach(v, goal, j + 1)

\* floor(log2(width / total)): the binary exponent of rect.width / totalImages
RatioExponent(width, total) ==
    IF width >= total THEN Log2Floor(width \div total)
    ELSE 0 - ShiftsToReach(width, total, 1)

RECURSIVE DoubledMod(_, _, _)
DoubledMod(rem, k, modulus) ==
    IF k = 0 THEN rem ELSE DoubledMod((2 * rem) % modulus, k - 1, modulus)

\* How zoneWidth = rect.width / totalImages was rounded: zoneWidth is the
\* quotient times (1 + d / (width * 2^k)), k = MantissaBits - exponent;
\* d > 0 rounded up, d < 0 rounded down, 0 exact.
RoundingError(width, total) ==
    IF width % total = 0 THEN 0
    ELSE LET rem == DoubledMod(width % total,
                               MantissaBits - RatioExponent(width, total), total)
         IN  IF rem = 0 THEN 0
             ELSE IF 2 * rem > total THEN total - rem
             ELSE 0 - rem

\* a * 2^s > b (or >= b when ~strict), s of either sign
ScaledExceeds(a, s, b, strict) ==
    LET left == IF s >= 0 THEN a * (2 ^ s) ELSE a
        right == IF s >= 0 THEN b ELSE b * (2 ^ (0 - s))
    IN  IF strict THEN left > right ELSE left >= right

\* Math.floor(relativeX / (rect.width / totalImages)), for width > 0, in
\* double arithmetic.  Off a zone border the floor is the exact one.  On a
\* border (x * total = q * width) the rounded zoneWidth can put the rounded
\* quotient just below q.
ZoneIndex(x, width, total) ==
    LET q == (x * total) \div width
        d == RoundingError(width, total)
        mag == IF q < 0 THEN 0 - q ELSE q
        e == Log2Floor(mag)
        s == 1 + RatioExponent(width, total) - e
    IN  IF (x * total) % width # 0 \/ q = 0 \/ d = 0 THEN q
        ELSE IF q > 0 /\ d > 0
             THEN IF ScaledExceeds(mag * d, IF mag = 2 ^ e THEN s + 1 ELSE s, width, TRUE)
                  THEN q - 1 ELSE q
        ELSE IF q < 0 /\ d < 0
             THEN IF ScaledExceeds(mag * (0 - d), s, width, FALSE) THEN q - 1 ELSE q
        ELSE q

\* Variant: the clamp without its lower end.
SafeIndexNoFloor(zoneIndex, total) == Min(zoneIndex, total - 1)

\* Math.max(0, Math.min(zoneIndex, totalImages - 1))
SafeIndex(zoneIndex, total) == Max(0, Min(zoneIndex, total - 1))

\* Variant: the zero-width exit leaves isProcessing set.
FrameCallbackStuck(w, cb, width) ==
    IF width = 0 THEN w
    ELSE LET safeIndex == SafeIndex(ZoneIndex(cb.clientX, width, totalImages(cb.c)),
                                    totalImages(cb.c))
         IN  [UpdateCarousel(w, cb.c, safeIndex) EXCEPT !.isProcessing[cb.c] = FALSE]

\* The requestAnimationFrame callback of one mousemove; width is what
\* getBoundingClientRect() reports when it runs.
FrameCallback(w, cb, width) ==
    IF width = 0 THEN [w EXCEPT !.isProcessing[cb.c] = FALSE]
    ELSE LET safeIndex == SafeIndex(ZoneIndex(cb.clientX, width, totalImages(cb.c)),
                                    totalImages(cb.c))
         IN  [UpdateCarousel(w, cb.c, safeIndex) EXCEPT !.isProcessing[cb.c] = FALSE]

\* Variant: mouseleave steps one image back instead of going to the first.
OnMouseLeaveStepBack(w, c) == UpdateCarousel(w, c, w.currentIndex[c] - 1)

\* carousel.addEventListener('mouseleave', ...)
OnMouseLeave(w, c) == UpdateCarousel(w, c, 0)

\* One animation frame: every queued callback runs, in the order queued.
RECURSIVE RunFrame(_, _, _)
RunFrame(w, queue, widths) ==
    IF queue = <<>> THEN w
    ELSE RunFrame(FrameCallback(w, Head(queue), widths[Head(queue).c]), Tail(queue), widths)

\* ------------------------------------------------------------------ actions
NoPointer == [over |-> 0, moved |-> FALSE, x |-> 0]

\* A page: one container with any of the markups next to a container that is
\* either the standard card or a card with unparsable data-images, in both
\* document orders.
BasicMarkups ==
    { m \in Markups : /\ m.hasCard /\ m.total = StdTotal /\ m.ndots = MaxTotal
                      /\ m.images \in {StdImages, [kind |-> "syntax", urls |-> <<>>]} }
Pages == { p \in [Carousels -> Markups] : \E c \in Carousels : p[c] \in BasicMarkups }

\* A pathname is the sequence pathname.split('/') gives: "/profile/" is
\* <<"", "profile", "">>.
ProfilePath == <<"", "profile", "">>

\* A page without the order form: map.js finds no #map and does nothing.
NoMap ==
    /\ mapContainer = 0 /\ containers = 0
    /\ ymapsDefined = FALSE /\ htmxDefined = FALSE /\ domReady = FALSE
    /\ myMapInstance = 0 /\ maps = <<>>
    /\ timers = 0 /\ readyQueue = <<>>
    /\ buyingType = "delivery" /\ address = ""
    /\ formBound = FALSE /\ searchVisible = FALSE
    /\ geocodes = <<>> /\ submitted = "none"
    /\ activeTab = "account" /\ tabsReady = FALSE
    /\ entries = <<ProfilePath>> /\ position = 1

Init ==
    /\ markup \in Pages
    /\ initialized = [c \in Carousels |-> FALSE]
    /\ listeners = [c \in Carousels |-> 0]
    /\ currentIndex = [c \in Carousels |-> 0]
    /\ imagesLoaded = [c \in Carousels |-> FALSE]
    /\ isProcessing = [c \in Carousels |-> FALSE]
    /\ images = [c \in Carousels |-> <<PrimaryImage>>]
    /\ dots = [c \in Carousels |-> [i \in 1..markup[c].ndots |-> FadedDot]]
    /\ rafQueue = <<>>
    /\ uncaught = FALSE
    /\ defaultPrevented = FALSE
    /\ pointer = NoPointer
    /\ NoMap

\* Events reach the handlers of a container once they are bound.
Bound(c) == listeners[c] > 0

\* init() on DOMContentLoaded, htmx.onLoad(content) afterwards.
InitCarousels(scope) ==
    /\ Commit(initCarousels(World, scope))
    /\ UNCHANGED pointer

MouseEnterEvent(c) == Commit(IF Bound(c) THEN OnMouseEnter(World, c) ELSE World)

MouseMoveEvent(c, x, inFire) ==
    /\ Len(rafQueue) < MaxQueue
    /\ Commit(IF Bound(c) THEN OnMouseMove(World, c, x, inFire) ELSE World)

MouseLeaveEvent(c) == Commit(IF Bound(c) THEN OnMouseLeave(World, c) ELSE World)

\* A click on the dot with position index among the dots of c's card.
DotClick(c, index) ==
    /\ index < Len(dots[c])
    /\ Commit(IF Bound(c) THEN OnDotClick(World, c, index)
              ELSE [World EXCEPT !.defaultPrevented = FALSE])
    /\ UNCHANGED pointer

\* The browser renders a frame; widths[c] is the width c has at that time.
FrameEvent(widths) ==
    /\ rafQueue # <<>>
    /\ \A c \in Carousels : (\A i \in DOMAIN rafQueue : rafQueue[i].c # c) => widths[c] = 0
    /\ Commit(RunFrame([World EXCEPT !.rafQueue = <<>>], rafQueue, widths))

\* Events dispatched in any order (script, touch and pointer alike).
MouseEnter(c) == MouseEnterEvent(c) /\ UNCHANGED pointer
MouseMove(c, x, inFire) == MouseMoveEvent(c, x, inFire) /\ UNCHANGED pointer
MouseLeave(c) == MouseLeaveEvent(c) /\ UNCHANGED pointer
Frame(widths) == FrameEvent(widths) /\ UNCHANGED pointer

Next ==
    \/ \E scope \in Scopes : InitCarousels(scope)
    \/ \E c \in Carousels : MouseEnter(c)
    \/ \E c \in Carousels, x \in Xs, inFire \in BOOLEAN : MouseMove(c, x, inFire)
    \/ \E c \in Carousels : MouseLeave(c)
    \/ \E c \in Carousels, index \in 0..MaxTotal : DotClick(c, index)
    \/ \E widths \in [Carousels -> Widths] : Frame(widths)

Spec == Init /\ [][Next]_vars

\* ------------------------------------------------------ one live instance
\* The page whose second container has unparsable data-images: every event
\* and frame acts on the one instance of the first container.
InitOneLive ==
    /\ Init
    /\ markup[2].images = [kind |-> "syntax", urls |-> <<>>]

SpecOneLive == InitOneLive /\ [][Next]_vars

\* The browser runs every requested animation frame callback eventually.
FrameRuns == \E widths \in [Carousels -> Widths] : Frame(widths)
SpecLive == InitOneLive /\ [][Next]_vars /\ WF_vars(FrameRuns)

\* ------------------------------------------------- a real pointer on the page
\* The pointer is over at most one container; it enters a container that
\* init() has processed, moves inside it (outside .group/fire) and leaves.
\* The containers are visible and keep their width.
RestWidth == CHOOSE w \in Widths : \A v \in Widths : v <= w
InsideXs == { x \in Xs : 0 <= x /\ x < RestWidth }

PointerEnter(c) ==
    /\ pointer.over = 0
    /\ initialized[c]
    /\ MouseEnterEvent(c)
    /\ pointer' = [over |-> c, moved |-> FALSE, x |-> 0]

PointerMove(c, x) ==
    /\ pointer.over = c
    /\ MouseMoveEvent(c, x, FALSE)
    /\ pointer' = [over |-> c, moved |-> TRUE, x |-> x]

PointerLeave(c) ==
    /\ pointer.over = c
    /\ MouseLeaveEvent(c)
    /\ pointer' = NoPointer

PointerFrame ==
    /\ FrameEvent([c \in Carousels |->
                     IF \E i \in DOMAIN rafQueue : rafQueue[i].c = c THEN RestWidth ELSE 0])
    /\ UNCHANGED pointer

NextPointer ==
    \/ InitCarousels(Document)
    \/ \E c \in Carousels : PointerEnter(c)
    \/ \E c \in Carousels, x \in InsideXs : PointerMove(c, x)
    \/ \E c \in Carousels : PointerLeave(c)
    \/ PointerFrame

SpecPointer == Init /\ [][NextPointer]_vars

\* ------------------------------------------------- the order page's map
\* static_dev/js/map.js.  The document holds at most one #map element; an
\* htmx swap can keep it, replace it by a new element or remove it.  A map
\* object belongs to the #map element it was constructed in.
MapWorld ==
    [mapContainer |-> mapContainer, ymapsDefined |-> ymapsDefined,
     myMapInstance |-> myMapInstance, maps |-> maps,
     timers |-> timers, readyQueue |-> readyQueue,
     buyingType |-> buyingType, address |-> address, formBound |-> formBound,
     searchVisible |-> searchVisible, geocodes |-> geocodes,
     submitted |-> submitted]

\* The script's result becomes the next state, within the caps.
CommitMap(w) ==
    \E v \in {w} :
        /\ v.timers <= MaxPending
        /\ Len(v.readyQueue) <= MaxPending
        /\ Len(v.maps) <= MaxMaps
        /\ myMapInstance' = v.myMapInstance
        /\ maps' = v.maps
        /\ timers' = v.timers
        /\ readyQueue' = v.readyQueue
        /\ buyingType' = v.buyingType
        /\ address' = v.address
        /\ formBound' = v.formBound
        /\ searchVisible' = v.searchVisible
        /\ geocodes' = v.geocodes
        /\ submitted' = v.submitted
        /\ UNCHANGED <<carouselVars, tabVars, mapContainer, ymapsDefined, htmxDefined>>

\* document.body.contains(window.myMapInstance.container.getElement())
InDocument(w, m) == w.maps[m].container = w.mapContainer

\* What the maps API does inside the try block of lines 31-39: nothing
\* unusual, or container.getElement() throws, or destroy() throws.
SdkOutcomes == {"ok", "getElementThrows", "destroyThrows"}

\* ymaps.ready(() => {...}) at line 47, the callback capturing mapContainer
WhenReady(w) == [w EXCEPT !.readyQueue = Append(@, w.mapContainer)]

\* window.initMapLogic; the catch of lines 40-43 drops the instance without
\* destroying it and goes on to ymaps.ready.
initMapLogic(w, sdk) ==
    IF w.mapContainer = 0 THEN w
    ELSE IF ~w.ymapsDefined THEN [w EXCEPT !.timers = @ + 1]
    ELSE IF w.myMapInstance = 0 THEN WhenReady(w)
    ELSE IF sdk = "getElementThrows" THEN WhenReady([w EXCEPT !.myMapInstance = 0])
    ELSE IF InDocument(w, w.myMapInstance) THEN w
    ELSE IF sdk = "destroyThrows" THEN WhenReady([w EXCEPT !.myMapInstance = 0])
    ELSE WhenReady([w EXCEPT !.maps[w.myMapInstance].destroyed = TRUE,
                             !.myMapInstance = 0])

\* An address is a string ('' is ""); the Cyrillic of the source is written
\* in Latin transliteration, letter by letter.
SAFU_ADDRESS == "Arkhangelskaya oblast, Severodvinsk, ulitsa Kapitana Voronina, 6"
NotFound == "Adres ne naiden"
\* The literal of /^Rossiya,\s*/ and the string of the second replace.
Country == "Rossiya,"
Region == "Arkhangelskaya oblast, "
\* What the geocoder answers: the 'text' and the 'name' of a geo object.
FoundText ==
    "Rossiya, Arkhangelskaya oblast, Severodvinsk, Severodvinsk, ulitsa Lomonosova, 1"
FoundName == "ulitsa Lomonosova, 1"
BuyingTypes == {"delivery", "self"}

RemoveAt(s, k) == SubSeq(s, 1, k - 1) \o SubSeq(s, k + 1, Len(s))

\* s.slice(k - 1): the string from its k-th character on
From(s, k) == SubSeq(s, k, Len(s))

\* \s* at the start of s
RECURSIVE SkipSpace(_)
SkipSpace(s) ==
    IF Len(s) > 0 /\ SubSeq(s, 1, 1) \in WhiteSpace THEN SkipSpace(From(s, 2)) ELSE s

\* s.replace(/^Rossiya,\s*/, '')
ReplaceCountry(s) ==
    IF Len(s) >= Len(Country) /\ SubSeq(s, 1, Len(Country)) = Country
    THEN SkipSpace(From(s, Len(Country) + 1))
    ELSE s

\* s.replace(pattern, '') with a string pattern: its first occurrence goes
ReplaceFirst(s, pattern) ==
    LET n == Len(pattern)
        at == { k \in 1..(Len(s) - n + 1) : SubSeq(s, k, k + n - 1) = pattern }
    IN  IF at = {} THEN s
        ELSE LET k == CHOOSE i \in at : \A j \in at : i <= j
             IN  SubSeq(s, 1, k - 1) \o From(s, k + n)

\* s.split(','): the pieces between the commas, empty ones included
RECURSIVE Split(_)
Split(s) ==
    LET at == { k \in 1..Len(s) : SubSeq(s, k, k) = "," }
    IN  IF at = {} THEN <<s>>
        ELSE LET k == CHOOSE i \in at : \A j \in at : i <= j
             IN  <<SubSeq(s, 1, k - 1)>> \o Split(From(s, k + 1))

\* part.trim()
RECURSIVE TrimEnd(_)
TrimEnd(s) ==
    IF Len(s) > 0 /\ SubSeq(s, Len(s), Len(s)) \in WhiteSpace
    THEN TrimEnd(SubSeq(s, 1, Len(s) - 1))
    ELSE s

Trim(s) == TrimEnd(SkipSpace(s))

\* [...new Set(parts)]: the first occurrence of every part, in order
RECURSIVE Unique(_, _)
Unique(s, seen) ==
    IF s = <<>> THEN <<>>
    ELSE IF Head(s) \in seen THEN Unique(Tail(s), seen)
    ELSE <<Head(s)>> \o Unique(Tail(s), seen \cup {Head(s)})

\* parts.join(', ')
RECURSIVE Join(_)
Join(parts) ==
    IF parts = <<>> THEN ""
    ELSE IF Len(parts) = 1 THEN parts[1]
    ELSE parts[1] \o ", " \o Join(Tail(parts))

\* cleanAddressString: '' for an empty address; else the two replaces on the
\* text, then the pieces between commas, trimmed, without repetitions.
cleanAddressString(raw) ==
    IF raw = "" THEN ""
    ELSE LET clean == ReplaceFirst(ReplaceCountry(raw), Region)
             parts == Split(clean)
             trimmed == [i \in 1..Len(parts) |-> Trim(parts[i])]
         IN  Join(Unique(trimmed, {}))

\* The order form (select, #address, #order-form) lives and dies with #map.
FormPresent(w) == w.mapContainer # 0

\* setAddress, lines 170-174: the value of #address (the placemark and the
\* pan of the map are not modelled).
setAddress(w, value) ==
    IF FormPresent(w) THEN [w EXCEPT !.address = value] ELSE w

\* handleBuyingTypeChange
handleBuyingTypeChange(w) ==
    IF ~FormPresent(w) \/ w.myMapInstance = 0 THEN w
    ELSE IF w.buyingType = "self"
         THEN [setAddress(w, SAFU_ADDRESS) EXCEPT !.searchVisible = FALSE]
    ELSE [w EXCEPT !.searchVisible = TRUE,
                   !.address = IF @ = SAFU_ADDRESS THEN "" ELSE @]

\* createMap: new ymaps.Map("map", ...) looks #map up when it runs and throws
\* without one (the caller catches); then a new search control, the form
\* listeners and the initial state of the form (the geocode of a prefilled
\* address only places the placemark).
createMap(w) ==
    IF w.mapContainer = 0 THEN w
    ELSE LET created ==
                 [w EXCEPT !.maps = Append(@, [container |-> w.mapContainer,
                                               destroyed |-> FALSE, rendered |-> TRUE]),
                           !.myMapInstance = Len(w.maps) + 1,
                           !.searchVisible = TRUE,
                           !.formBound = TRUE]
         IN  IF created.buyingType = "self" THEN handleBuyingTypeChange(created)
             ELSE created

\* mapContainer.innerHTML = '' on the element the callback captured.
ClearContainer(ms, captured) ==
    [m \in DOMAIN ms |->
        IF ms[m].container = captured THEN [ms[m] EXCEPT !.rendered = FALSE] ELSE ms[m]]

\* The callback passed to ymaps.ready.
OnReady(w) ==
    createMap([w EXCEPT !.readyQueue = Tail(@),
                        !.maps = ClearContainer(@, Head(w.readyQueue))])

\* What a swap does to #map: leaves it, brings a new element, removes it.
SwapKinds == {"kept", "replaced", "removed"}
Swapped(kind) ==
    /\ kind = "replaced" => containers < MaxContainers
    /\ CASE kind = "kept" -> UNCHANGED <<buyingType, address, formBound, submitted>>
         [] kind = "replaced" ->
               /\ buyingType' \in BuyingTypes
               /\ address' \in {"", cleanAddressString(FoundText)}
               /\ formBound' = FALSE /\ submitted' = "none"
         [] kind = "removed" ->
               /\ buyingType' = "delivery" /\ address' = ""
               /\ formBound' = FALSE /\ submitted' = "none"
    /\ mapContainer' = CASE kind = "kept" -> mapContainer
                          [] kind = "replaced" -> containers + 1
                          [] kind = "removed" -> 0
    /\ containers' = IF kind = "replaced" THEN containers + 1 ELSE containers

\* document.addEventListener('DOMContentLoaded', window.initMapLogic)
DOMContentLoaded ==
    /\ ~domReady
    /\ domReady' = TRUE
    /\ \E sdk \in SdkOutcomes : CommitMap(initMapLogic(MapWorld, sdk))
    /\ UNCHANGED containers

\* The maps API script runs and defines ymaps.
ApiLoads ==
    /\ ~ymapsDefined
    /\ ymapsDefined' = TRUE
    /\ UNCHANGED <<carouselVars, tabVars, mapContainer, containers, htmxDefined, domReady,
                   myMapInstance, maps, timers, readyQueue, formVars>>

\* htmx.on('htmx:afterSwap', ...)
AfterSwap(kind) ==
    /\ htmxDefined /\ domReady /\ timers < MaxPending
    /\ Swapped(kind)
    /\ timers' = timers + 1
    /\ UNCHANGED <<carouselVars, tabVars, ymapsDefined, htmxDefined, domReady,
                   myMapInstance, maps, readyQueue, searchVisible, geocodes>>

\* htmx.on('htmx:historyRestore', ...)
HistoryRestore(kind) ==
    /\ htmxDefined /\ domReady /\ timers < MaxPending
    /\ Swapped(kind)
    /\ timers' = timers + 1
    /\ UNCHANGED <<carouselVars, tabVars, ymapsDefined, htmxDefined, domReady,
                   myMapInstance, maps, readyQueue, searchVisible, geocodes>>

\* A 100 ms timer expires and calls window.initMapLogic.
TimerFires ==
    /\ timers > 0
    /\ \E sdk \in SdkOutcomes :
          CommitMap(initMapLogic([MapWorld EXCEPT !.timers = @ - 1], sdk))
    /\ UNCHANGED <<containers, domReady>>

\* The maps API is ready and runs the oldest waiting callback.
ReadyCallback ==
    /\ readyQueue # <<>>
    /\ CommitMap(OnReady(MapWorld))
    /\ UNCHANGED <<containers, domReady>>

\* The order page: no carousels bound, the form with #map present or not
\* yet, the API script and htmx loaded or not.
InitMap ==
    /\ markup = [c \in Carousels |->
                    [hasCard |-> FALSE, images |-> StdImages, total |-> StdTotal,
                     ndots |-> 0]]
    /\ initialized = [c \in Carousels |-> FALSE]
    /\ listeners = [c \in Carousels |-> 0]
    /\ currentIndex = [c \in Carousels |-> 0]
    /\ imagesLoaded = [c \in Carousels |-> FALSE]
    /\ isProcessing = [c \in Carousels |-> FALSE]
    /\ images = [c \in Carousels |-> <<PrimaryImage>>]
    /\ dots = [c \in Carousels |-> [i \in 1..markup[c].ndots |-> FadedDot]]
    /\ rafQueue = <<>>
    /\ uncaught = FALSE
    /\ defaultPrevented = FALSE
    /\ pointer = NoPointer
    /\ mapContainer \in {0, 1} /\ containers = mapContainer
    /\ ymapsDefined \in BOOLEAN /\ htmxDefined \in BOOLEAN
    /\ domReady = FALSE
    /\ myMapInstance = 0 /\ maps = <<>>
    /\ timers = 0 /\ readyQueue = <<>>
    /\ buyingType = "delivery" /\ address = ""
    /\ formBound = FALSE /\ searchVisible = FALSE
    /\ geocodes = <<>> /\ submitted = "none"
    /\ activeTab = "account" /\ tabsReady = FALSE
    /\ entries = <<ProfilePath>> /\ position = 1

NextMap ==
    \/ DOMContentLoaded
    \/ ApiLoads
    \/ \E kind \in SwapKinds : AfterSwap(kind)
    \/ \E kind \in SwapKinds : HistoryRestore(kind)
    \/ TimerFires
    \/ ReadyCallback

SpecMap == InitMap /\ [][NextMap]_vars

\* ------------------------------------------------------- the order form
\* A request in flight: who asked and what the service will answer.
ClickAnswers == {"none", "text"}
SearchAnswers == {"text", "name"}

\* handleMapClick: nothing for pickup, else ymaps.geocode(coords) is asked.
handleMapClick(w, answer) ==
    IF FormPresent(w) /\ w.buyingType = "self" THEN w
    ELSE [w EXCEPT !.geocodes = Append(@, [from |-> "click", answer |-> answer])]

\* handleSearchResult: searchControl.getResult(index) is asked.
handleSearchResult(w, answer) ==
    [w EXCEPT !.geocodes = Append(@, [from |-> "search", answer |-> answer])]

\* rawAddress in the two .then callbacks (lines 135 and 151).
RawAddress(request) ==
    CASE request.from = "click" /\ request.answer = "none" -> NotFound
      [] request.answer = "name" -> FoundName
      [] OTHER -> FoundText

\* The .then callback of request k: setAddress(cleanAddressString(raw), coords).
OnAnswer(w, k) ==
    setAddress([w EXCEPT !.geocodes = RemoveAt(@, k)],
               cleanAddressString(RawAddress(w.geocodes[k])))

\* Variant: onsubmit without the pickup fix.
OnSubmitNoFix(w) ==
    IF w.address = "" THEN [w EXCEPT !.submitted = "prevented"]
    ELSE [w EXCEPT !.submitted = "proceeded"]

\* form.onsubmit: "prevented" after e.preventDefault(), "fixed" when the
\* pickup address was written before the form went out.
OnSubmit(w) ==
    IF w.address = "" THEN [w EXCEPT !.submitted = "prevented"]
    ELSE IF w.buyingType = "self" /\ w.address # SAFU_ADDRESS
         THEN [w EXCEPT !.address = SAFU_ADDRESS, !.submitted = "fixed"]
    ELSE [w EXCEPT !.submitted = "proceeded"]

\* A map of the document's #map that the user can see and click.
Clickable == \E m \in DOMAIN maps :
    maps[m].container = mapContainer /\ ~maps[m].destroyed /\ maps[m].rendered

\* The 'click' event of the map.
MapClick(answer) ==
    /\ Clickable /\ Len(geocodes) < MaxGeocodes
    /\ CommitMap(handleMapClick(MapWorld, answer))
    /\ UNCHANGED <<containers, domReady>>

\* The 'resultselect' event of the search control.
SearchSelect(answer) ==
    /\ Clickable /\ searchVisible /\ Len(geocodes) < MaxGeocodes
    /\ CommitMap(handleSearchResult(MapWorld, answer))
    /\ UNCHANGED <<containers, domReady>>

\* A promise of geocode / getResult resolves; the answers come in any order.
GeocodeAnswers(k) ==
    /\ k \in DOMAIN geocodes
    /\ CommitMap(OnAnswer(MapWorld, k))
    /\ UNCHANGED <<containers, domReady>>

\* The user picks another buying type; 'change' reaches the listener bound
\* by initFormListeners.
ChangeBuyingType(type) ==
    /\ mapContainer # 0 /\ type # buyingType
    /\ CommitMap(IF formBound
                 THEN handleBuyingTypeChange([MapWorld EXCEPT !.buyingType = type])
                 ELSE [MapWorld EXCEPT !.buyingType = type])
    /\ UNCHANGED <<containers, domReady>>

\* The order form is submitted.
Submit ==
    /\ mapContainer # 0
    /\ CommitMap(IF formBound THEN OnSubmit(MapWorld)
                 ELSE [MapWorld EXCEPT !.submitted = "proceeded"])
    /\ UNCHANGED <<containers, domReady>>

\* The order page loaded as a document of its own, without htmx (line 301
\* registers no swap listener), as the server renders it: either buying
\* type, the address empty or filled in.
InitOrder ==
    /\ markup = [c \in Carousels |->
                    [hasCard |-> FALSE, images |-> StdImages, total |-> StdTotal,
                     ndots |-> 0]]
    /\ initialized = [c \in Carousels |-> FALSE]
    /\ listeners = [c \in Carousels |-> 0]
    /\ currentIndex = [c \in Carousels |-> 0]
    /\ imagesLoaded = [c \in Carousels |-> FALSE]
    /\ isProcessing = [c \in Carousels |-> FALSE]
    /\ images = [c \in Carousels |-> <<PrimaryImage>>]
    /\ dots = [c \in Carousels |-> [i \in 1..markup[c].ndots |-> FadedDot]]
    /\ rafQueue = <<>>
    /\ uncaught = FALSE
    /\ defaultPrevented = FALSE
    /\ pointer = NoPointer
    /\ mapContainer = 1 /\ containers = 1
    /\ ymapsDefined \in BOOLEAN /\ htmxDefined = FALSE
    /\ domReady = FALSE
    /\ myMapInstance = 0 /\ maps = <<>>
    /\ timers = 0 /\ readyQueue = <<>>
    /\ buyingType \in BuyingTypes
    /\ address \in {"", cleanAddressString(FoundText)}
    /\ formBound = FALSE /\ searchVisible = FALSE
    /\ geocodes = <<>> /\ submitted = "none"
    /\ activeTab = "account" /\ tabsReady = FALSE
    /\ entries = <<ProfilePath>> /\ position = 1

NextOrder ==
    \/ DOMContentLoaded
    \/ ApiLoads
    \/ TimerFires
    \/ ReadyCallback
    \/ \E answer \in ClickAnswers : MapClick(answer)
    \/ \E answer \in SearchAnswers : SearchSelect(answer)
    \/ \E k \in 1..MaxGeocodes : GeocodeAnswers(k)
    \/ \E type \in BuyingTypes : ChangeBuyingType(type)
    \/ Submit

SpecOrder == InitOrder /\ [][NextOrder]_vars

\* ------------------------------------------------------ the profile tabs
\* Alpine.data('profileTabs') of static_dev/js/carousel.js and the session
\* history of the profile page.
validTabs == {"account", "orders", "wishlist", "returns"}

\* Pathnames the profile page is opened with.
Pathnames ==
    {<<"", "">>, ProfilePath, <<"", "profile">>, <<"", "profile", "orders", "">>,
     <<"", "profile", "returns">>, <<"", "profile", "settings", "">>,
     <<"", "profile", "", "wishlist", "", "">>}

NonEmpty(segment) == segment # ""

\* pathname.split('/').filter(segment => segment).pop() and the choice of
\* the tab, in init() and in the popstate listener.
TabOf(pathname) ==
    LET segments == SelectSeq(pathname, NonEmpty)
    IN  IF segments = <<>> THEN "account"
        ELSE LET path == segments[Len(segments)]
             IN  IF path = "profile" THEN "account"
                 ELSE IF path \in validTabs THEN path
                 ELSE "account"

\* Variant: every tab is pushed as /profile/.
UrlOfProfile(tabId) == ProfilePath

\* tabId === 'account' ? '/profile/' : `/profile/${tabId}/`
UrlOf(tabId) ==
    IF tabId = "account" THEN ProfilePath ELSE <<"", "profile", tabId, "">>

\* init()
TabsInit ==
    /\ ~tabsReady
    /\ tabsReady' = TRUE
    /\ activeTab' = TabOf(entries[position])
    /\ UNCHANGED <<carouselVars, mapVars, formVars, entries, position>>

\* switchTab(tabId); history.pushState drops the entries after the current
\* one and adds the new URL.
switchTab(tabId) ==
    /\ tabsReady /\ position < MaxHistory
    /\ activeTab' = tabId
    /\ entries' = Append(SubSeq(entries, 1, position), UrlOf(tabId))
    /\ position' = position + 1
    /\ UNCHANGED <<carouselVars, mapVars, formVars, tabsReady>>

\* The popstate listener, after the browser moved to the entry at target.
PopState(target) ==
    /\ tabsReady /\ target \in DOMAIN entries
    /\ position' = target
    /\ activeTab' = TabOf(entries[target])
    /\ UNCHANGED <<carouselVars, mapVars, formVars, tabsReady, entries>>

\* history.back() and history.forward() by the user
Back == PopState(position - 1)
Forward == PopState(position + 1)

\* The profile page opened at one of the pathnames; no carousels, no map.
InitTabs ==
    /\ markup = [c \in Carousels |->
                    [hasCard |-> FALSE, images |-> StdImages, total |-> StdTotal,
                     ndots |-> 0]]
    /\ initialized = [c \in Carousels |-> FALSE]
    /\ listeners = [c \in Carousels |-> 0]
    /\ currentIndex = [c \in Carousels |-> 0]
    /\ imagesLoaded = [c \in Carousels |-> FALSE]
    /\ isProcessing = [c \in Carousels |-> FALSE]
    /\ images = [c \in Carousels |-> <<PrimaryImage>>]
    /\ dots = [c \in Carousels |-> [i \in 1..markup[c].ndots |-> FadedDot]]
    /\ rafQueue = <<>>
    /\ uncaught = FALSE
    /\ defaultPrevented = FALSE
    /\ pointer = NoPointer
    /\ mapContainer = 0 /\ containers = 0
    /\ ymapsDefined = FALSE /\ htmxDefined = FALSE /\ domReady = FALSE
    /\ myMapInstance = 0 /\ maps = <<>>
    /\ timers = 0 /\ readyQueue = <<>>
    /\ buyingType = "delivery" /\ address = ""
    /\ formBound = FALSE /\ searchVisible = FALSE
    /\ geocodes = <<>> /\ submitted = "none"
    /\ activeTab = "account" /\ tabsReady = FALSE
    /\ entries \in {<<pathname>> : pathname \in Pathnames} /\ position = 1

NextTabs ==
    \/ TabsInit
    \/ \E tabId \in validTabs : switchTab(tabId)
    \/ Back
    \/ Forward

SpecTabs == InitTabs /\ [][NextTabs]_vars

\* =================================================================== claims
Malformed(c) == markup[c].hasCard /\ ParseImages(markup[c].images).threw
WellFormed(c) ==
    markup[c].hasCard /\ ~ParseImages(markup[c].images).threw /\ totalImages(c) > 1
PendingFor(c) == Cardinality({ i \in DOMAIN rafQueue : rafQueue[i].c = c })
TopImages(c) == { k \in DOMAIN images[c] : images[c][k].top }
BlackDots(c) == { i \in DOMAIN dots[c] : dots[c][i].black }
InsertedAt(c, i) == { k \in DOMAIN images[c] : k > 1 /\ images[c][k].idx = i }

\* C1: for every interactive instance the current index lies in
\* 0..totalImages-1 in every reachable state.
C1_IndexInRange ==
    \A c \in Carousels :
        Bound(c) => (0 <= currentIndex[c] /\ currentIndex[c] <= totalImages(c) - 1)

\* The last image of a three-image instance is the current one.
C1_Witness ==
    \E c \in Carousels :
        Bound(c) /\ totalImages(c) >= 3 /\ currentIndex[c] = totalImages(c) - 1

\* C2 (as claimed): every instance whose card has a dot per image has exactly
\* one image on top and exactly one active dot in every reachable state.
C2_ExactlyOneActive ==
    \A c \in Carousels :
        (Bound(c) /\ Len(dots[c]) >= totalImages(c))
            => (Cardinality(TopImages(c)) = 1 /\ Cardinality(BlackDots(c)) = 1)

\* C3: each non-primary URL index has at most one inserted image, none before
\* loadImages has run and exactly one after; imagesLoaded never falls back.
C3_Inserted ==
    \A c \in Carousels :
        /\ \A k \in DOMAIN images[c] : k > 1 => images[c][k].idx \in 1..(Len(imagesUrl(c)) - 1)
        /\ \A i \in 1..(Len(imagesUrl(c)) - 1) :
              Cardinality(InsertedAt(c, i)) = IF imagesLoaded[c] THEN 1 ELSE 0
C3_LoadIdempotent ==
    /\ []C3_Inserted
    /\ [][\A c \in Carousels : imagesLoaded[c] => imagesLoaded'[c]]_vars

\* The lazy images are in and a non-primary one is shown.
C3_Witness ==
    \E c \in Carousels :
        /\ Bound(c) /\ imagesLoaded[c] /\ currentIndex[c] > 0
        /\ Len(imagesUrl(c)) >= 3 /\ Len(images[c]) = Len(imagesUrl(c))

\* C4: initCarousels on any scope leaves an already initialized container
\* alone: no listener added, no image inserted, index and loaded flag kept.
C4_ReinitNoOp ==
    \A scope \in Scopes :
        LET after == initCarousels(World, scope)
        IN  \A c \in Carousels : initialized[c] =>
                /\ after.initialized[c]
                /\ after.listeners[c] = listeners[c]
                /\ after.images[c] = images[c]
                /\ after.currentIndex[c] = currentIndex[c]
                /\ after.imagesLoaded[c] = imagesLoaded[c]

\* An initialized instance that a second binding would visibly reset.
C4_Witness ==
    \E c \in Carousels :
        initialized[c] /\ listeners[c] = 1 /\ imagesLoaded[c] /\ currentIndex[c] > 0

\* C5 (as claimed): a container whose data-images fails to parse is never
\* marked initialized, has no listeners, and keeps its dots and images.
C5_LeftUnmarked ==
    \A c \in Carousels :
        Malformed(c) =>
            /\ ~initialized[c]
            /\ listeners[c] = 0
            /\ dots[c] = [i \in 1..markup[c].ndots |-> FadedDot]
            /\ images[c] = <<PrimaryImage>>

\* C5 (amended): a call that processes a container whose data-images fails
\* to parse marks it initialized and does nothing else to it; it never has
\* listeners, and its dots and images stay as rendered.
C5_Untouched ==
    \A c \in Carousels :
        Malformed(c) =>
            /\ listeners[c] = 0
            /\ dots[c] = [i \in 1..markup[c].ndots |-> FadedDot]
            /\ images[c] = <<PrimaryImage>>
C5_SkippedButMarked ==
    /\ C5_Untouched
    /\ \A scope \in Scopes : \A c \in Carousels :
            (Malformed(c) /\ \E k \in DOMAIN Selected(World, scope) :
                                Selected(World, scope)[k] = c)
                => initCarousels(World, scope).initialized[c]

\* A container with unparsable data-images after a call processed it.
C5_Witness ==
    \E c \in Carousels : Malformed(c) /\ initialized[c] /\ listeners[c] = 0

\* C6: a call over the document lets no exception escape, and every
\* well-formed container is initialized and interactive afterwards, whatever
\* the data-images of the containers before or after it.
C6_OthersProceed ==
    /\ ~uncaught
    /\ LET after == initCarousels(World, Document)
       IN  /\ ~after.uncaught
           /\ \A c \in Carousels :
                  WellFormed(c) => (after.initialized[c] /\ after.listeners[c] = 1)

\* A malformed container first in the document, a bound one after it.
C6_Witness ==
    \E c, d \in Carousels :
        /\ c < d /\ Malformed(c) /\ initialized[c]
        /\ WellFormed(d) /\ initialized[d] /\ listeners[d] = 1

\* C7: a mouseleave on an interactive instance leaves the current index 0.
C7_LeaveResets ==
    \A c \in Carousels : Bound(c) => OnMouseLeave(World, c).currentIndex[c] = 0

\* An instance showing its last image, lazy images loaded, before the leave.
C7_Witness ==
    \E c \in Carousels :
        Bound(c) /\ imagesLoaded[c] /\ totalImages(c) >= 3 /\ currentIndex[c] = 2

\* The zone of offset x among total equal zones of a container of the given
\* width, by its defining inequality.
ZoneOf(x, width, total) ==
    IF x < 0 THEN 0
    ELSE IF x >= width THEN total - 1
    ELSE CHOOSE i \in 0..(total - 1) : i * width <= x * total /\ x * total < (i + 1) * width

\* C8 (as claimed): with the pointer resting inside an interactive container
\* after a mousemove and no frame callback pending, the current index is the
\* zone the pointer is in.
C8_ShowsPointerZone ==
    \A c \in Carousels :
        (Bound(c) /\ pointer.over = c /\ pointer.moved /\ PendingFor(c) = 0)
            => currentIndex[c] = ZoneOf(pointer.x, RestWidth, totalImages(c))

\* C9: at most one frame callback is pending per instance, and one is pending
\* exactly while isProcessing is set.
C9_OnePending ==
    \A c \in Carousels :
        /\ PendingFor(c) <= 1
        /\ isProcessing[c] <=> PendingFor(c) = 1

\* Both instances have a callback pending at once.
C9_Witness ==
    /\ Len(rafQueue) = 2
    /\ \A c \in Carousels : isProcessing[c] /\ PendingFor(c) = 1

\* C10: a frame callback for offset x sets the index to the zone of x in
\* the width read (0 below the container, the last zone at or beyond its
\* width), and leaves the index alone when the width is 0.
C10_ZoneMapping ==
    /\ ZoneOf(150, 300, 3) = 1
    /\ [][(rafQueue # <<>> /\ rafQueue' = <<>>) =>
            \A widths \in [Carousels -> Widths] : Frame(widths) =>
                \A i \in DOMAIN rafQueue :
                    LET c == rafQueue[i].c
                    IN  currentIndex'[c] =
                            IF widths[c] = 0 THEN currentIndex[c]
                            ELSE ZoneOf(rafQueue[i].clientX, widths[c], totalImages(c))]_vars

\* A callback for x = 150 waits on a three-image instance showing image 2.
C10_Witness ==
    \E i \in DOMAIN rafQueue :
        /\ rafQueue[i].clientX = 150
        /\ totalImages(rafQueue[i].c) = 3
        /\ currentIndex[rafQueue[i].c] = 2

\* What updateCarousel can reach of an instance: closure and DOM.
InstanceOf(w, c) ==
    <<w.currentIndex[c], w.imagesLoaded[c], w.isProcessing[c], w.images[c], w.dots[c]>>

\* Indices a caller can pass, in and out of range.
CallIndices == (0 - 1)..(MaxTotal + 1)

\* C11: updateCarousel(index) with the current index or an index outside
\* 0..totalImages-1 changes nothing: index, loaded flag, inserted images and
\* the classes of images and dots stay, and loadImages is not triggered.
C11_UpdateNoOp ==
    \A c \in Carousels : \A index \in CallIndices :
        (Bound(c) /\ (index = currentIndex[c] \/ index < 0 \/ index > totalImages(c) - 1))
            => UpdateCarousel(World, c, index) = World

\* An instance showing a later image of three with an index beyond the range
\* to call, and one whose lazy images are not loaded yet.
C11_Witness ==
    /\ \E c \in Carousels : Bound(c) /\ currentIndex[c] = 1 /\ totalImages(c) = 2
    /\ \E c \in Carousels : Bound(c) /\ ~imagesLoaded[c]

\* A container whose data-images parsed and whose total count is at most 1.
SingleImage(c) ==
    markup[c].hasCard /\ ~ParseImages(markup[c].images).threw /\ totalImages(c) <= 1

\* C12: with a total count <= 1 (missing, zero, non-numeric or negative
\* counts included) initialization marks the first dot active and binds
\* nothing: no event changes a dot class or an image, or inserts an image.
C12_NonInteractive ==
    \A c \in Carousels :
        SingleImage(c) =>
            /\ listeners[c] = 0
            /\ images[c] = <<PrimaryImage>>
            /\ currentIndex[c] = 0 /\ ~imagesLoaded[c] /\ ~isProcessing[c]
            /\ PendingFor(c) = 0
            /\ \A i \in DOMAIN dots[c] :
                  /\ dots[c][i].black = (initialized[c] /\ i = 1)
                  /\ dots[c][i].faded = ~(initialized[c] /\ i = 1)

\* An initialized single-image container with its first dot active.
C12_Witness ==
    \E c \in Carousels :
        /\ SingleImage(c) /\ initialized[c]
        /\ markup[c].total = <<>> /\ dots[c][1].black

\* C13: an index > 0 is current only with the lazy images inserted, and a
\* mouseenter on an interactive instance leaves imagesLoaded true.
C13_LoadedInvariant ==
    \A c \in Carousels : currentIndex[c] > 0 => imagesLoaded[c]
C13_LoadedBeforeShown ==
    /\ []C13_LoadedInvariant
    /\ [][\A c \in Carousels : (Bound(c) /\ MouseEnter(c)) => imagesLoaded'[c]]_vars

\* A later image is shown and the lazy images are in the container.
C13_Witness ==
    \E c \in Carousels :
        /\ Bound(c) /\ currentIndex[c] > 0 /\ imagesLoaded[c]
        /\ Len(images[c]) = Len(imagesUrl(c))

\* C14: a click on dot i of an interactive instance leaves imagesLoaded true,
\* makes i current when 0 <= i < totalImages and keeps the index when
\* i >= totalImages (a hidden extra dot); the default action is suppressed in
\* both cases.
C14_DotClick ==
    \A c \in Carousels : \A i \in 0..(Len(dots[c]) - 1) :
        Bound(c) =>
            LET clicked == OnDotClick(World, c, i)
            IN  /\ clicked.imagesLoaded[c]
                /\ clicked.currentIndex[c]
                      = (IF i < totalImages(c) THEN i ELSE currentIndex[c])
                /\ clicked.defaultPrevented

\* A click on a hidden extra dot went through with image 1 kept, and a click
\* selected the last image of another instance.
C14_Witness ==
    /\ defaultPrevented
    /\ \E c \in Carousels :
          /\ Bound(c) /\ imagesLoaded[c] /\ currentIndex[c] = 1
          /\ Len(dots[c]) > totalImages(c)
    /\ \E c \in Carousels : Bound(c) /\ currentIndex[c] = MaxTotal - 1

\* C15: a mousemove whose target lies inside .group/fire is ignored: current
\* index, loaded flag and processing flag keep their values and no frame
\* callback is scheduled (nothing else changes either).
C15_FireIgnored ==
    \A c \in Carousels : \A x \in Xs :
        Bound(c) => OnMouseMove(World, c, x, TRUE) = World

\* An instance showing a later image with the throttle open: a mousemove
\* outside .group/fire would schedule a callback here.
C15_Witness ==
    \E c \in Carousels :
        /\ Bound(c) /\ ~isProcessing[c] /\ currentIndex[c] > 0
        /\ Len(rafQueue) < MaxQueue
        /\ \A x \in Xs : OnMouseMove(World, c, x, FALSE) # World

\* The results of every event that can be delivered to instance c now.
Deliveries(c) ==
    {OnMouseEnter(World, c), OnMouseLeave(World, c)}
        \cup { OnMouseMove(World, c, x, f) : x \in Xs, f \in BOOLEAN }
        \cup { OnDotClick(World, c, i) : i \in 0..(Len(dots[c]) - 1) }
        \cup { FrameCallback(World, rafQueue[k], width) :
                    k \in { j \in DOMAIN rafQueue : rafQueue[j].c = c }, width \in Widths }

\* C16: an event delivered to one instance (mouseenter, mousemove, frame
\* callback, mouseleave, dot click) leaves current index, loaded flag,
\* processing flag, inserted images and dot and image classes of every other
\* instance unchanged.  Each container lies in a card of its own.
C16_NoSharedState ==
    \A c \in Carousels : \A d \in Carousels \ {c} :
        Bound(c) => \A w \in Deliveries(c) : InstanceOf(w, d) = InstanceOf(World, d)

\* Two interactive instances in different states, one with a callback
\* pending, the other idle on a later image.
C16_Witness ==
    \E c \in Carousels : \E d \in Carousels \ {c} :
        /\ Bound(c) /\ Bound(d)
        /\ isProcessing[c] /\ PendingFor(c) = 1 /\ currentIndex[c] = 0
        /\ ~isProcessing[d] /\ currentIndex[d] > 0 /\ imagesLoaded[d]

\* C17 (as claimed): the image on top is the one whose data-carousel-image
\* index is currentIndex, and the active dot is the one at currentIndex,
\* when the card has a dot there, whatever the total count, the URL-list
\* length and the dot count.
C17_IndexIdentifiesDisplay ==
    \A c \in Carousels :
        Bound(c) =>
            /\ \E k \in DOMAIN images[c] :
                  TopImages(c) = {k} /\ images[c][k].idx = currentIndex[c]
            /\ BlackDots(c) = {currentIndex[c] + 1} \cap DOMAIN dots[c]

\* C18 (as claimed): with the pointer outside an interactive container (it
\* left, or never entered) and no dot clicked, the current index is 0, also
\* after a frame callback scheduled before the mouseleave has run.
C18_StaysReset ==
    \A c \in Carousels :
        (Bound(c) /\ pointer.over # c) => currentIndex[c] = 0

\* C19: the throttle never locks up.  Every frame callback clears
\* isProcessing, on the zero-width exit too, so with requested frames
\* eventually running a set flag is eventually clear again with nothing
\* pending, and the next mousemove outside .group/fire schedules a callback.
C19_NeverLocksUp ==
    \A c \in Carousels :
        isProcessing[c] ~>
            /\ ~isProcessing[c] /\ PendingFor(c) = 0
            /\ \A x \in Xs : OnMouseMove(World, c, x, FALSE).rafQueue
                                  = <<[c |-> c, clientX |-> x]>>

\* A callback is pending for an instance that already showed a later image:
\* an earlier callback ran and a later mousemove was scheduled again.
C19_Witness ==
    \E c \in Carousels :
        /\ Bound(c) /\ isProcessing[c] /\ PendingFor(c) = 1
        /\ currentIndex[c] > 0

\* The maps constructed in #map element g and not destroyed.
LiveMaps(g) == { m \in DOMAIN maps : maps[m].container = g /\ ~maps[m].destroyed }

\* C20 (as claimed): however the initMapLogic calls (DOMContentLoaded, the
\* 100 ms timers after swaps and history restores, the retry) interleave with
\* the ymaps.ready callbacks, no #map element ever holds two live maps.
C20_NoDuplicateMap ==
    \A g \in 1..MaxContainers : Cardinality(LiveMaps(g)) <= 1

\* C21 (as claimed): with the form bound (handleBuyingTypeChange has run for
\* the selected type) and the buying type 'self', the address field holds the
\* pickup address, also after the answer to a map click or a search
\* selection made before the switch has arrived.
C21_PickupAddressStays ==
    (mapContainer # 0 /\ formBound /\ buyingType = "self") => address = SAFU_ADDRESS

\* C22: once createMap has bound the order form, a submit with an empty
\* address is prevented, and a submit that goes out with buying type 'self'
\* carries the pickup address, whatever selections, type changes and
\* submits came before.
C22_SubmitGuarded ==
    (mapContainer # 0 /\ formBound) =>
        LET sent == OnSubmit(MapWorld)
        IN  /\ address = "" => (sent.submitted = "prevented" /\ sent.address = "")
            /\ (sent.submitted # "prevented" /\ buyingType = "self")
                    => sent.address = SAFU_ADDRESS
            /\ sent.submitted # "prevented" => sent.address # ""

\* A pickup order went out after onsubmit replaced a stale delivery address
\* by the pickup address.
C22_Witness ==
    /\ mapContainer # 0 /\ formBound
    /\ submitted = "fixed" /\ buyingType = "self" /\ address = SAFU_ADDRESS

\* The tab a pathname stands for: its last non-empty segment when that is
\* one of the four tabs, 'account' otherwise.
ParsedTab(pathname) ==
    LET named == { k \in DOMAIN pathname : pathname[k] # "" }
    IN  IF named = {} THEN "account"
        ELSE LET last == pathname[CHOOSE k \in named : \A j \in named : j <= k]
             IN  IF last \in {"account", "orders", "wishlist", "returns"} THEN last
                 ELSE "account"

\* C23: after init() and any sequence of switchTab(t), t one of the four
\* tabs, and popstate events, activeTab is a valid tab and is the tab the
\* last segment of the current pathname parses to ("/profile/" and unknown
\* segments give 'account'); the URL pushed by switchTab(t) parses to t.
C23_TabMatchesUrl ==
    /\ tabsReady =>
          (activeTab \in validTabs /\ activeTab = ParsedTab(entries[position]))
    /\ \A tabId \in validTabs : ParsedTab(UrlOf(tabId)) = tabId

\* Back in the history after two switches: the page opened at an unknown
\* segment shows 'orders' again with a later entry ahead.
C23_Witness ==
    /\ tabsReady /\ Len(entries) = MaxHistory /\ position = 2
    /\ TabOf(entries[1]) = "account" /\ entries[1] # ProfilePath
    /\ activeTab = "orders" /\ TabOf(entries[MaxHistory]) = "returns"

====
